---------------------------- MODULE Spec2Model ----------------------------
(***************************************************************************)
(* AVIPlayer (avi_player.cpp / avi_player.h / main.cpp): the RIFF/AVI       *)
(* chunk walk, the frame index, the pixel-format resolution, renderFrame    *)
(* and the play() loop, over a byte-level model of the input file and of    *)
(* the std::ifstream that reads it.                                         *)
(*                                                                          *)
(* A byte is a number 0..255.  Every 32-bit field of the input files stays  *)
(* below 2^31 (TLC's integers), and every LIST chunk declares at least 4    *)
(* bytes and every video 'strf' chunk at least 40, so that the unsigned     *)
(* subtractions `chunk.size - 4` and `chunk.size - sizeof(BitmapInfoHeader)`*)
(* never wrap on the inputs of this model.                                  *)
(***************************************************************************)
EXTENDS Integers, Sequences, FiniteSets, TLC

(***************************************************************************)
(* Bounds of the model.                                                     *)
(***************************************************************************)
\* most video frame chunks in the movi list of an input file
MaxFrames == 2
\* width and height (pixels) the input files declare
FrameW == 2
FrameH == 2
\* most renderFrame calls of the random-access driver (SpecDecode)
MaxDecodes == 3
\* bytes by which the texture's row pitch exceeds one row of pixels
PitchPad == 1

(***************************************************************************)
(* Sizes of the packed structures (avi_player.h).                           *)
(***************************************************************************)
SizeofRIFFHeader == 12
SizeofChunkHeader == 8
SizeofAVIMainHeader == 56
SizeofAVIStreamHeader == 56
SizeofBitmapInfoHeader == 40
SizeofRGBQuad == 4

(***************************************************************************)
(* Four-character codes, as their ASCII bytes.                              *)
(***************************************************************************)
TagRIFF == <<82, 73, 70, 70>>
TagAVI  == <<65, 86, 73, 32>>
TagLIST == <<76, 73, 83, 84>>
Taghdrl == <<104, 100, 114, 108>>
Tagavih == <<97, 118, 105, 104>>
Tagstrl == <<115, 116, 114, 108>>
Tagstrh == <<115, 116, 114, 104>>
Tagstrf == <<115, 116, 114, 102>>
Tagmovi == <<109, 111, 118, 105>>
Tagvids == <<118, 105, 100, 115>>
Tagauds == <<97, 117, 100, 115>>
Tag00dc == <<48, 48, 100, 99>>
Tag00db == <<48, 48, 100, 98>>
Tag01wb == <<48, 49, 119, 98>>
TagJUNK == <<74, 85, 78, 75>>
Tagidx1 == <<105, 100, 120, 49>>
Tagrec  == <<114, 101, 99, 32>>
TagINFO == <<73, 78, 70, 79>>

(***************************************************************************)
(* Little-endian fields.                                                    *)
(***************************************************************************)
Zeros(n) == [i \in 1..n |-> 0]

LE16(n) == <<n % 256, (n \div 256) % 256>>

LE32(n) == <<n % 256, (n \div 256) % 256, (n \div 65536) % 256,
             (n \div 16777216) % 256>>

\* a signed 32-bit value in two's complement
LE32S(n) ==
    IF n >= 0 THEN LE32(n)
    ELSE LET m == (n + 1073741824) + 1073741824
         IN  <<m % 256, (m \div 256) % 256, (m \div 65536) % 256,
               ((m \div 16777216) % 128) + 128>>

\* the uint16_t / uint32_t / int32_t stored at byte offset off of b
U16At(b, off) == b[off + 1] + 256 * b[off + 2]

U32At(b, off) == b[off + 1] + 256 * b[off + 2] + 65536 * b[off + 3]
                 + 16777216 * b[off + 4]

S32At(b, off) == b[off + 1] + 256 * b[off + 2] + 65536 * b[off + 3]
                 + 16777216 * (IF b[off + 4] >= 128 THEN b[off + 4] - 256
                                                     ELSE b[off + 4])

\* the 4 bytes at offset off of b: a fourCC
TagAt(b, off) == SubSeq(b, off + 1, off + 4)


(***************************************************************************)
(* The structures of avi_player.h as bytes, and their fields.               *)
(***************************************************************************)
\* struct AVIMainHeader: microSecPerFrame at 0, totalFrames at 16, width at
\* 32, height at 36
MainHeaderBytes(usec, total, w, h) ==
    LE32(usec) \o Zeros(12) \o LE32(total) \o Zeros(12) \o LE32(w) \o LE32(h)
    \o Zeros(16)

MicroSecPerFrame(mh) == U32At(mh, 0)
MainTotalFrames(mh)  == U32At(mh, 16)
MainWidth(mh)        == U32At(mh, 32)
MainHeight(mh)       == U32At(mh, 36)

\* struct AVIStreamHeader: fccType at 0
StreamHeaderBytes(fccType) == fccType \o Zeros(52)

FccType(sh) == TagAt(sh, 0)

\* struct BitmapInfoHeader: size at 0, width at 4, height at 8 (signed),
\* planes at 12, bitCount at 14, compression at 16
BitmapBytes(w, h, bits, comp) ==
    LE32(40) \o LE32(w) \o LE32S(h) \o LE16(1) \o LE16(bits) \o LE32(comp)
    \o Zeros(20)

BmpWidth(bh)       == S32At(bh, 4)
BmpHeight(bh)      == S32At(bh, 8)
BmpBitCount(bh)    == U16At(bh, 14)
BmpCompression(bh) == U32At(bh, 16)

\* bitmapHeader.height = -bitmapHeader.height
NegateHeight(bh) ==
    [i \in 1..Len(bh) |->
        IF i \in 9..12 THEN LE32S(0 - BmpHeight(bh))[i - 8] ELSE bh[i]]

\* struct RGBQuad: blue, green, red, reserved
RGBQuad(b, g, r, x) == [blue |-> b, green |-> g, red |-> r, reserved |-> x]

QuadAt(b, off) == RGBQuad(b[off + 1], b[off + 2], b[off + 3], b[off + 4])

(***************************************************************************)
(* Input files.  A file is described by a record and laid out as the bytes  *)
(* a writer following the AVI layout would produce; the descriptions below  *)
(* cover well-formed files of every supported format and the malformed      *)
(* files the parser's branches are about.                                   *)
(***************************************************************************)
RECURSIVE Concat(_)
Concat(ss) == IF ss = <<>> THEN <<>> ELSE Head(ss) \o Concat(Tail(ss))

Pad(payload) == IF Len(payload) % 2 = 1 THEN <<0>> ELSE <<>>

\* a chunk: fourCC, length, payload, pad byte to an even boundary
Chunk(tag, payload) == tag \o LE32(Len(payload)) \o payload \o Pad(payload)

\* a chunk whose header declares another length than its payload has
ChunkDecl(tag, declared, payload) == tag \o LE32(declared) \o payload

List(type, body) == TagLIST \o LE32(4 + Len(body)) \o type \o body

SrcBytesPerPixel(bits) == (bits + 7) \div 8

\* the j-th byte (1-based) of frame k's pixel data: palette indices for
\* 8 bit (some beyond the palette), distinct bytes otherwise
PixelByte(bits, k, j) ==
    IF bits = 8 THEN (k + j) % 5 ELSE (64 * k + 3 * j + 1) % 256

FramePayload(bits, w, h, k) ==
    [j \in 1..(w * h * SrcBytesPerPixel(bits)) |-> PixelByte(bits, k, j)]

\* the rows (rowLen bytes each) of a frame's pixel data in reverse order
ReverseRows(payload, rowLen) ==
    [j \in 1..Len(payload) |->
        LET r == (j - 1) \div rowLen
            c == (j - 1) % rowLen
            rows == Len(payload) \div rowLen
        IN  payload[(rows - 1 - r) * rowLen + c + 1]]

\* the palette the files carry: PaletteLen quads, entry i (0-based) is
\* blue 16i+3, green 16i+2, red 16i+1
PaletteLen == 3

PaletteBytes(n, seed) ==
    Concat([i \in 1..n |-> <<(16 * (i - 1) + 3 + seed) % 256,
                             (16 * (i - 1) + 2 + seed) % 256,
                             (16 * (i - 1) + 1 + seed) % 256, 0>>])

FrameTag(k) == IF k % 2 = 1 THEN Tag00dc ELSE Tag00db

\* the movi list's chunks: frame k, preceded by an odd-length audio chunk
\* when the file carries audio, and by a 'rec ' list that holds one more
\* frame chunk in a "recList" file
MoviChunks(d) ==
    Concat([k \in 1..d.nFrames |->
        (IF d.layout = "audio" THEN Chunk(Tag01wb, <<7, 8, 9>>) ELSE <<>>)
        \o (IF d.layout = "recList"
            THEN List(Tagrec, Chunk(Tag00dc, FramePayload(d.bits, FrameW,
                                                          FrameH, k + 2)))
            ELSE <<>>)
        \o (IF d.layout = "shortFrame" /\ k = d.nFrames
            THEN Chunk(FrameTag(k),
                       SubSeq(FramePayload(d.bits, FrameW, FrameH, k), 1,
                              FrameW * SrcBytesPerPixel(d.bits)))
            ELSE IF d.layout = "emptyFrame" /\ k = 1
            THEN Chunk(FrameTag(k), <<>>)
            ELSE IF d.layout = "rowsReversed"
            THEN Chunk(FrameTag(k),
                       ReverseRows(FramePayload(d.bits, FrameW, FrameH, k),
                                   FrameW * SrcBytesPerPixel(d.bits)))
            ELSE Chunk(FrameTag(k), FramePayload(d.bits, FrameW, FrameH, k)))])

DeclaredHeight(d) == IF d.topDown THEN 0 - FrameH ELSE FrameH

VideoFormat(d) ==
    BitmapBytes(FrameW, DeclaredHeight(d), d.bits, d.comp)
    \o (IF d.bits = 8 THEN PaletteBytes(PaletteLen, 0) ELSE <<>>)
    \o (IF d.layout = "palPartial" THEN <<200, 201>> ELSE <<>>)

\* the format of the second video stream of a "twoVideo" file: the other
\* orientation, and 8 bit with its own 2-entry palette unless the first
\* stream is 8 bit (then 24 bit)
SecondFormat(d) ==
    IF d.bits = 8
    THEN BitmapBytes(FrameW, 0 - DeclaredHeight(d), 24, 0)
    ELSE BitmapBytes(FrameW, 0 - DeclaredHeight(d), 8, 0) \o PaletteBytes(2, 100)

VideoStrl(d) ==
    List(Tagstrl,
         Chunk(Tagstrh, StreamHeaderBytes(Tagvids))
         \o Chunk(Tagstrf, VideoFormat(d))
         \o (IF d.layout = "strnOdd" THEN Chunk(TagJUNK, <<1, 2, 3>>) ELSE <<>>)
         \o (IF d.layout = "extras" THEN Chunk(TagJUNK, <<1, 2>>) ELSE <<>>))

SecondVideoStrl(d) ==
    List(Tagstrl,
         Chunk(Tagstrh, StreamHeaderBytes(Tagvids))
         \o Chunk(Tagstrf, SecondFormat(d)))

AudioStrl ==
    List(Tagstrl,
         Chunk(Tagstrh, StreamHeaderBytes(Tagauds))
         \o Chunk(Tagstrf, Zeros(16)))

DeclaredFrames(d) == d.nFrames + d.declDelta

AvihChunk(d) ==
    LET mh == MainHeaderBytes(d.usec, DeclaredFrames(d),
                              IF d.layout = "dimMismatch" THEN FrameW + 1
                                                          ELSE FrameW,
                              FrameH)
    IN  IF d.layout = "avih64"
        THEN ChunkDecl(Tagavih, 64, mh \o Zeros(8))
        ELSE Chunk(Tagavih, mh)

HdrlList(d) ==
    List(Taghdrl,
         (IF d.layout = "noAvih" THEN <<>> ELSE AvihChunk(d))
         \o (IF d.layout = "extras"
             THEN Chunk(TagJUNK, <<1, 2, 3, 4>>) \o List(TagINFO, Zeros(4))
             ELSE <<>>)
         \o (IF d.layout = "noVideo" THEN <<>> ELSE VideoStrl(d))
         \o (IF d.layout = "twoVideo" THEN SecondVideoStrl(d) ELSE <<>>)
         \o (IF d.layout \in {"audio", "noVideo"} THEN AudioStrl ELSE <<>>))

FullFile(d) ==
    LET body ==
          (IF d.layout = "noHdrl" THEN <<>> ELSE HdrlList(d))
          \o (IF d.layout = "junkTop" THEN Chunk(TagJUNK, <<1, 2, 3>>) ELSE <<>>)
          \o (IF d.layout = "extras"
              THEN List(TagINFO, Zeros(6)) \o Chunk(TagJUNK, Zeros(2))
              ELSE <<>>)
          \o List(Tagmovi, MoviChunks(d))
          \o (IF d.layout \in {"audio", "extras"}
              THEN Chunk(Tagidx1, Zeros(16)) ELSE <<>>)
    IN  (IF d.layout = "notAvi" THEN TagJUNK ELSE TagRIFF)
        \o LE32(4 + Len(body)) \o TagAVI \o body


Desc(l, b, c, t, n, dd, u, cut, keep) ==
    [layout |-> l, bits |-> b, comp |-> c, topDown |-> t, nFrames |-> n,
     declDelta |-> dd, usec |-> u, cut |-> cut, keep |-> keep]

Layouts == {"plain", "audio", "twoVideo", "strnOdd", "junkTop", "extras",
            "avih64", "noHdrl", "noVideo", "noAvih", "shortFrame",
            "emptyFrame", "dimMismatch", "palPartial", "notAvi",
            "rowsReversed", "recList"}

\* bytes missing at the end of a truncated copy
Cuts == {1, 2, 5, 9, 13, 17, 21, 25, 33}

\* lengths of copies truncated inside the headers
Keeps == {12, 16, 20, 24, 50, 90, 100, 150, 170, 212, 216, 220, 222}

Inputs ==
    {Desc("plain", b, 0, t, MaxFrames, 0, 500000, 0, 0) :
        b \in {8, 16, 24, 32}, t \in BOOLEAN}
    \cup {Desc("plain", 24, 0, FALSE, n, dd, 500000, 0, 0) :
        n \in 1..MaxFrames, dd \in {-1, 1}}
    \cup {Desc("plain", 24, 0, FALSE, 0, dd, 500000, 0, 0) : dd \in {0, 1}}
    \cup {Desc("plain", b, 1, FALSE, 1, 0, 500000, 0, 0) : b \in {8, 24}}
    \cup {Desc("plain", b, c, FALSE, 1, 0, 500000, 0, 0) :
        b \in {1, 4, 12}, c \in {0, 1}}
    \cup {Desc(l, b, 0, FALSE, MaxFrames, 0, 500000, 0, 0) :
        l \in Layouts, b \in {8, 24}}
    \cup {Desc("plain", 24, 0, TRUE, MaxFrames, 0, u, 0, 0) : u \in {0, 2000000}}
    \cup {Desc("plain", b, 0, FALSE, MaxFrames, 0, 500000, c, 0) :
        b \in {8, 24}, c \in Cuts}
    \cup {Desc("plain", 24, 0, FALSE, MaxFrames, 0, 500000, 0, k) : k \in Keeps}

\* the file as stored: FullFile(d), or a copy of it truncated after d.keep
\* bytes or with its last d.cut bytes missing
FileBytes(d) ==
    LET f == FullFile(d)
    IN  IF d.keep > 0 THEN SubSeq(f, 1, IF d.keep < Len(f) THEN d.keep ELSE Len(f))
        ELSE IF d.cut > 0 THEN SubSeq(f, 1, Len(f) - d.cut)
        ELSE f

\* a file every chunk of which is laid out as the AVI layout asks (padded to
\* even boundaries, lengths as declared, nothing missing), uncompressed, in
\* a supported bit depth, with a video stream and at least one frame
WellFormed(d) ==
    /\ d.layout \in {"plain", "audio", "extras", "strnOdd", "junkTop",
                    "rowsReversed"}
    /\ d.cut = 0 /\ d.keep = 0
    /\ d.comp = 0 /\ d.bits \in {8, 16, 24, 32}
    /\ d.nFrames >= 1

(***************************************************************************)
(* State.                                                                   *)
(***************************************************************************)
VARIABLES
    input,          \* the description of the file given to loadAVI
    disk,           \* the bytes of that file
    file,           \* std::ifstream file: [pos, fail]
    mainHeader, streamHeader, bitmapHeader,     \* the header structs, as bytes
    frameWidth, frameHeight, fps, totalFrames, currentFrame,
    bitsPerPixel, bytesPerPixel, isTopDown,
    frameOffsets, frameSizes, palette,
    sdlPixelFormat, isValid,
    texture,        \* whether initSDL created the texture
    pixels,         \* the texture's pixel buffer, height rows of pitch bytes
    pc,             \* where main / loadAVI / play stand
    foundMainHeader,        \* parseAVIChunks' local
    hl,             \* parseHeaderList's frame: size, bytesRead, ...
    sl,             \* parseStreamList's frame
    mv,             \* indexFrames' frame: movieStart, movieSize
    quit,           \* play's local
    hist            \* history of the run (what the properties refer to)

hdrs  == <<mainHeader, streamHeader, bitmapHeader>>
info  == <<frameWidth, frameHeight, fps, totalFrames, bitsPerPixel,
           bytesPerPixel, isTopDown, sdlPixelFormat>>
index == <<frameOffsets, frameSizes>>
loc   == <<foundMainHeader, hl, sl, mv>>
vars  == <<input, disk, file, hdrs, info, index, palette, currentFrame,
           isValid, texture, pixels, pc, loc, quit, hist>>

(***************************************************************************)
(* std::ifstream over the file's bytes.  Once failbit is set nothing in     *)
(* the program clears it: every later read and seek does nothing.           *)
(***************************************************************************)
\* file.read(buf, n): the stream after the read
Read(s, n) ==
    IF s.fail THEN s
    ELSE IF s.pos + n <= Len(disk) THEN [s EXCEPT !.pos = s.pos + n]
    ELSE [pos |-> IF s.pos < Len(disk) THEN Len(disk) ELSE s.pos, fail |-> TRUE]

\* file.read(buf, n): the buffer (old before the read) after the read; the
\* bytes the file does not have stay as they were
ReadInto(s, n, old) ==
    [i \in 1..Len(old) |->
        IF ~s.fail /\ i <= n /\ s.pos + i <= Len(disk) THEN disk[s.pos + i]
        ELSE old[i]]

\* file.seekg(off, std::ios::cur); a seek past the end of the file succeeds
SeekCur(s, off) ==
    IF s.fail THEN s
    ELSE IF s.pos + off < 0 THEN [s EXCEPT !.fail = TRUE]
    ELSE [s EXCEPT !.pos = s.pos + off]

\* file.seekg(p)
SeekTo(s, p) == IF s.fail THEN s ELSE [s EXCEPT !.pos = p]

\* file.tellg()
Tellg(s) == IF s.fail THEN -1 ELSE s.pos

\* a ChunkHeader read at s.pos
ChunkFourCC(s) == TagAt(disk, s.pos)
ChunkSize(s)   == U32At(disk, s.pos + 4)

\* char listType[4]; file.read(listType, 4): what listType may hold after
\* the read; it is uninitialised where the read fell short
ListTypeRead(s) ==
    IF Read(s, 4).fail THEN {Taghdrl, Tagstrl, Tagmovi, TagINFO}
    ELSE {TagAt(disk, s.pos)}

\* where a chunk that starts at p and declares length len ends
ChunkEnd(p, len) == p + SizeofChunkHeader + len + (len % 2)

\* the stream stands where the chunk (p, len) ends
AtChunkEnd(s, p, len) == s.fail \/ s.pos = ChunkEnd(p, len)

(***************************************************************************)
(* What the members hold before loadAVI: the constructor leaves the three   *)
(* header structs uninitialised.                                            *)
(***************************************************************************)
StaleFill == {"zero", "stale"}

UninitMainHeader(u) ==
    IF u = "zero" THEN Zeros(SizeofAVIMainHeader)
    ELSE MainHeaderBytes(40000, MaxFrames, FrameW, FrameH)

UninitStreamHeader(u) ==
    IF u = "zero" THEN Zeros(SizeofAVIStreamHeader)
    ELSE StreamHeaderBytes(Tagvids)

UninitBitmapHeader(u) ==
    IF u = "zero" THEN Zeros(SizeofBitmapInfoHeader)
    ELSE BitmapBytes(FrameW, FrameH, 24, 0)

\* the frame of parseHeaderList / parseStreamList: its parameter size, its
\* local bytesRead, the size of the chunk its loop body is processing, and
\* where the LIST chunk it was called for starts and what length it declares
NoFrame == [size |-> 0, bytesRead |-> 0, chunkSize |-> 0, listStart |-> 0,
            listSize |-> 0]

InitHist ==
    [stages |-> <<>>, misaligned |-> FALSE, firstFormat |-> <<>>,
     firstPalette |-> <<>>, videoFormats |-> 0, presented |-> <<>>,
     loadResult |-> "none", loadedFile |-> [pos |-> 0, fail |-> FALSE],
     calls |-> <<>>, played |-> FALSE, firstRun |-> <<>>,
     paletteOverrun |-> 0]

Init ==
    /\ input \in Inputs
    /\ disk = FileBytes(input)
    /\ file = [pos |-> 0, fail |-> FALSE]
    /\ \E u \in StaleFill :
          /\ mainHeader = UninitMainHeader(u)
          /\ streamHeader = UninitStreamHeader(u)
          /\ bitmapHeader = UninitBitmapHeader(u)
    /\ frameWidth = 0 /\ frameHeight = 0 /\ fps = 0 /\ totalFrames = 0
    /\ currentFrame = 0 /\ bitsPerPixel = 0 /\ bytesPerPixel = 0
    /\ isTopDown = FALSE
    /\ frameOffsets = <<>> /\ frameSizes = <<>> /\ palette = <<>>
    /\ sdlPixelFormat = "UNKNOWN" /\ isValid = FALSE
    /\ texture = FALSE /\ pixels = <<>>
    /\ pc = "start"
    /\ foundMainHeader = FALSE
    /\ hl = NoFrame /\ sl = NoFrame
    /\ mv = [movieStart |-> 0, movieSize |-> 0]
    /\ quit = FALSE
    /\ hist = InitHist


(***************************************************************************)
(* loadAVI, first part: open the file, check the RIFF header.               *)
(***************************************************************************)
\* the outcomes of the signature test: riffHeader is uninitialised where
\* the file is shorter than the header
SignatureOk(s) ==
    IF Read(s, SizeofRIFFHeader).fail THEN BOOLEAN
    ELSE {TagAt(disk, s.pos) = TagRIFF /\ TagAt(disk, s.pos + 8) = TagAVI}

LoadFail == /\ pc' = "loadFailed"
            /\ hist' = [hist EXCEPT !.loadResult = "failed"]

LoadOpen ==
    /\ pc = "start"
    /\ \E opened \in BOOLEAN :
          IF ~opened
          THEN /\ LoadFail
               /\ UNCHANGED file
          ELSE \E sigOk \in SignatureOk(file) :
                 /\ file' = Read(file, SizeofRIFFHeader)
                 /\ IF sigOk THEN pc' = "top" /\ UNCHANGED hist
                             ELSE LoadFail
    /\ UNCHANGED <<input, disk, hdrs, info, index, palette, currentFrame,
                   isValid, texture, pixels, loc, quit>>

(***************************************************************************)
(* parseAVIChunks: one iteration of its loop.                               *)
(***************************************************************************)
ParseTop ==
    /\ pc = "top"
    /\ LET s1   == Read(file, SizeofChunkHeader)
           p    == file.pos
           size == ChunkSize(file)
       IN  IF s1.fail
           THEN \* the loop ends: return foundMainHeader && !frameOffsets.empty()
                /\ file' = s1
                /\ pc' = "parsed"
                /\ UNCHANGED <<loc, hist>>
           ELSE IF ChunkFourCC(file) = TagLIST
           THEN \E listType \in ListTypeRead(s1) :
                  LET s2 == Read(s1, 4)
                  IN  IF listType = Taghdrl
                      THEN \* parseHeaderList(chunk.size - 4)
                           /\ file' = s2
                           /\ hl' = [size |-> size - 4, bytesRead |-> 0,
                                     chunkSize |-> 0, listStart |-> p,
                                     listSize |-> size]
                           /\ pc' = "hdrl"
                           /\ hist' = [hist EXCEPT
                                         !.stages = Append(@, "headers")]
                           /\ UNCHANGED <<foundMainHeader, sl, mv>>
                      ELSE IF listType = Tagmovi
                      THEN \* indexFrames(chunk.size - 4)
                           /\ file' = s2
                           /\ mv' = [movieStart |-> Tellg(s2),
                                     movieSize |-> size - 4]
                           /\ pc' = "movi"
                           /\ hist' = [hist EXCEPT
                                         !.stages = Append(@, "index")]
                           /\ UNCHANGED <<foundMainHeader, hl, sl>>
                      ELSE /\ file' = SeekCur(s2, size - 4)
                           /\ pc' = "top"
                           /\ hist' = [hist EXCEPT !.misaligned =
                                 @ \/ ~AtChunkEnd(file', p, size)]
                           /\ UNCHANGED loc
           ELSE /\ file' = SeekCur(s1, size)
                /\ pc' = "top"
                /\ hist' = [hist EXCEPT !.misaligned =
                                 @ \/ ~AtChunkEnd(file', p, size)]
                /\ UNCHANGED loc
    /\ UNCHANGED <<input, disk, hdrs, info, index, palette, currentFrame,
                   isValid, texture, pixels, quit>>

(***************************************************************************)
(* parseHeaderList: one iteration of its loop, or its return.               *)
(***************************************************************************)
ParseHeaderList ==
    /\ pc = "hdrl"
    /\ LET s1   == Read(file, SizeofChunkHeader)
           p    == file.pos
           size == ChunkSize(file)
           n1   == hl.bytesRead + SizeofChunkHeader
       IN  IF ~(hl.bytesRead < hl.size) \/ s1.fail
           THEN \* return to parseAVIChunks: foundMainHeader = true
                /\ file' = (IF hl.bytesRead < hl.size THEN s1 ELSE file)
                /\ foundMainHeader' = TRUE
                /\ pc' = "top"
                /\ hist' = [hist EXCEPT !.misaligned =
                                 @ \/ ~AtChunkEnd(file', hl.listStart, hl.listSize)]
                /\ UNCHANGED <<hl, sl, mv, mainHeader>>
           ELSE IF ChunkFourCC(file) = Tagavih
           THEN /\ mainHeader' = ReadInto(s1, SizeofAVIMainHeader, mainHeader)
                /\ file' = Read(s1, SizeofAVIMainHeader)
                /\ hl' = [hl EXCEPT !.bytesRead = n1 + size]
                /\ hist' = [hist EXCEPT !.misaligned =
                                 @ \/ ~AtChunkEnd(file', p, size)]
                /\ UNCHANGED <<pc, foundMainHeader, sl, mv>>
           ELSE IF ChunkFourCC(file) = TagLIST
           THEN \E listType \in ListTypeRead(s1) :
                  LET s2 == Read(s1, 4)
                  IN  IF listType = Tagstrl
                      THEN \* parseStreamList(chunk.size - 4)
                           /\ file' = s2
                           /\ hl' = [hl EXCEPT !.bytesRead = n1 + 4,
                                               !.chunkSize = size]
                           /\ sl' = [size |-> size - 4, bytesRead |-> 0,
                                     chunkSize |-> 0, listStart |-> p,
                                     listSize |-> size]
                           /\ pc' = "strl"
                           /\ UNCHANGED <<foundMainHeader, mv, mainHeader,
                                          hist>>
                      ELSE /\ file' = SeekCur(s2, size - 4)
                           /\ hl' = [hl EXCEPT !.bytesRead = n1 + 4 + size]
                           /\ hist' = [hist EXCEPT !.misaligned =
                                 @ \/ ~AtChunkEnd(file', p, size)]
                           /\ UNCHANGED <<pc, foundMainHeader, sl, mv,
                                          mainHeader>>
           ELSE /\ file' = SeekCur(s1, size)
                /\ hl' = [hl EXCEPT !.bytesRead = n1 + size]
                /\ hist' = [hist EXCEPT !.misaligned =
                                 @ \/ ~AtChunkEnd(file', p, size)]
                /\ UNCHANGED <<pc, foundMainHeader, sl, mv, mainHeader>>
    /\ UNCHANGED <<input, disk, streamHeader, bitmapHeader, info, index,
                   palette, currentFrame, isValid, texture, pixels, quit>>


(***************************************************************************)
(* parseStreamList: one iteration of its loop, or its return.               *)
(***************************************************************************)
\* palette.resize(n): the first n entries kept, new ones zero
Resize(pal, n) ==
    [i \in 1..n |-> IF i <= Len(pal) THEN pal[i] ELSE RGBQuad(0, 0, 0, 0)]

\* file.read(palette.data(), remainingBytes) after palette.resize(n): entry
\* i is overwritten by the bytes the file has for it
ReadPalette(s, pal, n, remainingBytes) ==
    LET old == Resize(pal, n)
        raw == ReadInto(s, remainingBytes,
                        Concat([i \in 1..n |-> <<old[i].blue, old[i].green,
                                                 old[i].red, old[i].reserved>>]))
    IN  [i \in 1..n |-> QuadAt(raw, SizeofRGBQuad * (i - 1))]

\* file.read(palette.data(), remainingBytes) with the stream at s: the
\* number of bytes it stores beyond the n entries palette.resize(n) made
\* room for
PaletteOverrun(s, n, remainingBytes) ==
    LET avail == IF s.fail \/ Len(disk) < s.pos THEN 0 ELSE Len(disk) - s.pos
        got   == IF remainingBytes < avail THEN remainingBytes ELSE avail
    IN  IF got > n * SizeofRGBQuad THEN got - n * SizeofRGBQuad ELSE 0

ParseStreamList ==
    /\ pc = "strl"
    /\ LET s1   == Read(file, SizeofChunkHeader)
           p    == file.pos
           size == ChunkSize(file)
           n1   == sl.bytesRead + SizeofChunkHeader
       IN  IF ~(sl.bytesRead < sl.size) \/ s1.fail
           THEN \* return to parseHeaderList: bytesRead += chunk.size
                /\ file' = (IF sl.bytesRead < sl.size THEN s1 ELSE file)
                /\ hl' = [hl EXCEPT !.bytesRead = @ + hl.chunkSize]
                /\ pc' = "hdrl"
                /\ hist' = [hist EXCEPT !.misaligned =
                                 @ \/ ~AtChunkEnd(file', sl.listStart, sl.listSize)]
                /\ UNCHANGED <<sl, streamHeader, bitmapHeader, palette>>
           ELSE IF ChunkFourCC(file) = Tagstrh
           THEN /\ streamHeader' =
                        ReadInto(s1, SizeofAVIStreamHeader, streamHeader)
                /\ file' = Read(s1, SizeofAVIStreamHeader)
                /\ sl' = [sl EXCEPT !.bytesRead = n1 + size]
                /\ hist' = [hist EXCEPT !.misaligned =
                                 @ \/ ~AtChunkEnd(file', p, size)]
                /\ UNCHANGED <<pc, hl, bitmapHeader, palette>>
           ELSE IF ChunkFourCC(file) = Tagstrf /\ FccType(streamHeader) = Tagvids
           THEN LET bh == ReadInto(s1, SizeofBitmapInfoHeader, bitmapHeader)
                    s2 == Read(s1, SizeofBitmapInfoHeader)
                    remainingBytes == size - SizeofBitmapInfoHeader
                    paletteEntries == remainingBytes \div SizeofRGBQuad
                    pal == IF remainingBytes > 0 /\ BmpBitCount(bh) = 8
                           THEN ReadPalette(s2, palette, paletteEntries,
                                            remainingBytes)
                           ELSE palette
                    \* the bytes written past the end of the palette's
                    \* buffer: they may land in the allocation's slack, or
                    \* corrupt the heap and end the process
                    overrun == IF remainingBytes > 0 /\ BmpBitCount(bh) = 8
                               THEN PaletteOverrun(s2, paletteEntries,
                                                   remainingBytes)
                               ELSE 0
                IN  /\ bitmapHeader' = bh
                    /\ palette' = pal
                    /\ file' = (IF remainingBytes > 0 /\ BmpBitCount(bh) = 8
                                THEN Read(s2, remainingBytes)
                                ELSE IF remainingBytes > 0
                                THEN SeekCur(s2, remainingBytes)
                                ELSE s2)
                    /\ sl' = [sl EXCEPT !.bytesRead = n1 + size]
                    /\ hist' = [hist EXCEPT
                          !.misaligned = @ \/ ~AtChunkEnd(file', p, size),
                          !.videoFormats = @ + 1,
                          !.firstFormat = IF hist.videoFormats = 0 THEN bh ELSE @,
                          !.firstPalette = IF hist.videoFormats = 0 THEN pal ELSE @,
                          !.paletteOverrun = @ + overrun]
                    /\ pc' \in (IF overrun > 0 THEN {pc, "crashed"} ELSE {pc})
                    /\ UNCHANGED <<hl, streamHeader>>
           ELSE /\ file' = SeekCur(s1, size)
                /\ sl' = [sl EXCEPT !.bytesRead = n1 + size]
                /\ hist' = [hist EXCEPT !.misaligned =
                                 @ \/ ~AtChunkEnd(file', p, size)]
                /\ UNCHANGED <<pc, hl, streamHeader, bitmapHeader, palette>>
    /\ UNCHANGED <<input, disk, mainHeader, info, index, currentFrame,
                   isValid, texture, pixels, foundMainHeader, mv, quit>>

(***************************************************************************)
(* indexFrames: one iteration of its loop, or its return (and the break     *)
(* out of parseAVIChunks' loop that follows it).                            *)
(***************************************************************************)
\* an indexFrames that knows only the "00dc" marker
IsFrameTagOnlyDc(tag) == tag = Tag00dc

IsFrameTag(tag) == tag = Tag00dc \/ tag = Tag00db

\* uint32_t skipSize = chunk.size; if (skipSize % 2 == 1) skipSize++;
SkipSize(size) == IF size % 2 = 1 THEN size + 1 ELSE size

IndexFrames ==
    /\ pc = "movi"
    /\ LET s1   == Read(file, SizeofChunkHeader)
           p    == file.pos
           size == ChunkSize(file)
           more == Tellg(file) < mv.movieStart + mv.movieSize
       IN  IF ~more \/ s1.fail
           THEN /\ file' = (IF more THEN s1 ELSE file)
                /\ pc' = "parsed"
                /\ hist' = [hist EXCEPT !.misaligned =
                                 @ \/ ~AtChunkEnd(file', mv.movieStart - 12,
                                                  mv.movieSize + 4)]
                /\ UNCHANGED index
           ELSE /\ IF IsFrameTag(ChunkFourCC(file))
                   THEN /\ frameOffsets' = Append(frameOffsets, Tellg(s1))
                        /\ frameSizes' = Append(frameSizes, size)
                   ELSE UNCHANGED index
                /\ file' = SeekCur(s1, SkipSize(size))
                /\ hist' = [hist EXCEPT !.misaligned =
                                 @ \/ ~AtChunkEnd(file', p, size)]
                /\ UNCHANGED pc
    /\ UNCHANGED <<input, disk, hdrs, info, palette, currentFrame, isValid,
                   texture, pixels, loc, quit>>


(***************************************************************************)
(* determinePixelFormat, on the bitmap header bh; fmt is sdlPixelFormat     *)
(* before the call.                                                         *)
(***************************************************************************)
SupportedBits == {8, 16, 24, 32}

SdlFormatOf(bits) ==
    CASE bits = 8  -> "RGB24"
      [] bits = 16 -> "RGB565"
      [] bits = 24 -> "RGB24"
      [] bits = 32 -> "RGBA32"

\* a determinePixelFormat whose switch has no failing default
determinePixelFormatAnyDepth(bh, fmt) ==
    LET bits == BmpBitCount(bh)
        ok   == BmpCompression(bh) = 0
    IN  [ok |-> ok,
         bitsPerPixel |-> bits,
         bytesPerPixel |-> (bits + 7) \div 8,
         sdlPixelFormat |-> IF ok /\ bits \in SupportedBits
                            THEN SdlFormatOf(bits) ELSE fmt]

\* a determinePixelFormat without the test of bitmapHeader.compression
determinePixelFormatAnyCompression(bh, fmt) ==
    LET bits == BmpBitCount(bh)
        ok   == bits \in SupportedBits
    IN  [ok |-> ok,
         bitsPerPixel |-> bits,
         bytesPerPixel |-> (bits + 7) \div 8,
         sdlPixelFormat |-> IF ok THEN SdlFormatOf(bits) ELSE fmt]

determinePixelFormat(bh, fmt) ==
    LET bits == BmpBitCount(bh)
        ok   == BmpCompression(bh) = 0 /\ bits \in SupportedBits
    IN  [ok |-> ok,
         bitsPerPixel |-> bits,
         bytesPerPixel |-> (bits + 7) \div 8,
         sdlPixelFormat |-> IF ok THEN SdlFormatOf(bits) ELSE fmt]

(***************************************************************************)
(* loadAVI, second part: after parseAVIChunks returned.                     *)
(***************************************************************************)
\* a parseAVIChunks that reports success whatever it found
ParseResultIgnored == TRUE

\* return foundMainHeader && !frameOffsets.empty();
ParseResult == foundMainHeader /\ frameOffsets # <<>>

LoadFinish ==
    /\ pc = "parsed"
    /\ IF ~ParseResult
       THEN /\ LoadFail
            /\ UNCHANGED <<bitmapHeader, info, isValid>>
       ELSE LET usec == MicroSecPerFrame(mainHeader)
                h    == BmpHeight(bitmapHeader)
                bh   == IF h < 0 THEN NegateHeight(bitmapHeader)
                                 ELSE bitmapHeader
                pf   == determinePixelFormat(bh, sdlPixelFormat)
            IN  /\ fps' = (IF usec > 0 THEN 1000000 \div usec ELSE 30)
                /\ frameWidth' = MainWidth(mainHeader)
                /\ frameHeight' = (IF h < 0 THEN BmpHeight(bh)
                                            ELSE MainHeight(mainHeader))
                /\ totalFrames' = MainTotalFrames(mainHeader)
                /\ isTopDown' = (h < 0)
                /\ bitmapHeader' = bh
                /\ bitsPerPixel' = pf.bitsPerPixel
                /\ bytesPerPixel' = pf.bytesPerPixel
                /\ sdlPixelFormat' = pf.sdlPixelFormat
                /\ isValid' = pf.ok
                /\ pc' = (IF pf.ok THEN "loaded" ELSE "loadFailed")
                /\ hist' = [hist EXCEPT
                              !.stages = Append(@, "format"),
                              !.loadResult = IF pf.ok THEN "ok" ELSE "failed",
                              !.loadedFile = file]
    /\ UNCHANGED <<input, disk, file, mainHeader, streamHeader, index,
                   palette, currentFrame, texture, pixels, loc, quit>>

(***************************************************************************)
(* initSDL: the window, the renderer and the texture are SDL's; each        *)
(* creation may fail.  The texture is frameWidth x frameHeight pixels in    *)
(* sdlPixelFormat.                                                          *)
(***************************************************************************)
TextureBytesPerPixel(fmt) ==
    CASE fmt = "RGB24"  -> 3
      [] fmt = "RGB565" -> 2
      [] fmt = "RGBA32" -> 4
      [] OTHER          -> 0

\* the row stride SDL_LockTexture reports
Pitch == frameWidth * TextureBytesPerPixel(sdlPixelFormat) + PitchPad

InitSDL ==
    /\ pc = "loaded"
    /\ \E created \in BOOLEAN :
          IF created
          THEN /\ texture' = TRUE
               /\ pixels' = Zeros(frameHeight * Pitch)
               /\ pc' = "ready"
          ELSE /\ pc' = "exit"
               /\ UNCHANGED <<texture, pixels>>
    /\ UNCHANGED <<input, disk, file, hdrs, info, index, palette,
                   currentFrame, isValid, loc, quit, hist>>


(***************************************************************************)
(* The converters.  frameData is the std::vector the frame was read into,   *)
(* px the texture's buffer before the call, pitch its row stride; the       *)
(* result is the buffer after the call.  A read of frameData beyond its     *)
(* size is out of bounds: oob is the byte such a read happens to return.    *)
(***************************************************************************)
SrcByte(frameData, i, oob) ==
    IF i < Len(frameData) THEN frameData[i + 1] ELSE oob

\* a row mapping that flips every picture
SrcRowAlwaysFlipped(y) == frameHeight - 1 - y

\* a row mapping that ignores the orientation flag
SrcRowIgnoringOrientation(y) == y

\* uint32_t srcY = isTopDown ? y : (frameHeight - 1 - y);
SrcRow(y) == IF isTopDown THEN y ELSE frameHeight - 1 - y

\* an 8-bit converter that shows the last palette entry for an index
\* beyond the palette
convert8BitClampingIndex(frameData, px, pitch, oob) ==
    [q \in 1..Len(px) |->
        LET y == (q - 1) \div pitch
            o == (q - 1) % pitch
            x == o \div 3
            paletteIndex == SrcByte(frameData, SrcRow(y) * frameWidth + x, oob)
            entry == IF paletteIndex < Len(palette) THEN paletteIndex + 1
                                                    ELSE Len(palette)
        IN  IF y < frameHeight /\ x < frameWidth
            THEN IF entry > 0
                 THEN CASE o % 3 = 0 -> palette[entry].red
                        [] o % 3 = 1 -> palette[entry].green
                        [] o % 3 = 2 -> palette[entry].blue
                 ELSE 0
            ELSE px[q]]

convert8BitToRGB24(frameData, px, pitch, oob) ==
    [q \in 1..Len(px) |->
        LET y == (q - 1) \div pitch
            o == (q - 1) % pitch
            x == o \div 3
            paletteIndex == SrcByte(frameData, SrcRow(y) * frameWidth + x, oob)
        IN  IF y < frameHeight /\ x < frameWidth
            THEN IF paletteIndex < Len(palette)
                 THEN CASE o % 3 = 0 -> palette[paletteIndex + 1].red
                        [] o % 3 = 1 -> palette[paletteIndex + 1].green
                        [] o % 3 = 2 -> palette[paletteIndex + 1].blue
                 ELSE 0
            ELSE px[q]]

convert16BitToRGB565(frameData, px, pitch, oob) ==
    [q \in 1..Len(px) |->
        LET y == (q - 1) \div pitch
            o == (q - 1) % pitch
            x == o \div 2
        IN  IF y < frameHeight /\ x < frameWidth
            THEN SrcByte(frameData, SrcRow(y) * frameWidth * 2 + o, oob)
            ELSE px[q]]

\* a 24-bit converter that copies the three bytes in the order stored
convert24BitCopying(frameData, px, pitch, oob) ==
    [q \in 1..Len(px) |->
        LET y == (q - 1) \div pitch
            o == (q - 1) % pitch
            x == o \div 3
        IN  IF y < frameHeight /\ x < frameWidth
            THEN SrcByte(frameData, SrcRow(y) * frameWidth * 3 + o, oob)
            ELSE px[q]]

convert24BitBGRToRGB(frameData, px, pitch, oob) ==
    [q \in 1..Len(px) |->
        LET y == (q - 1) \div pitch
            o == (q - 1) % pitch
            x == o \div 3
        IN  IF y < frameHeight /\ x < frameWidth
            THEN SrcByte(frameData,
                         SrcRow(y) * frameWidth * 3 + x * 3 + (2 - (o % 3)), oob)
            ELSE px[q]]

convert32BitBGRAToRGBA(frameData, px, pitch, oob) ==
    [q \in 1..Len(px) |->
        LET y == (q - 1) \div pitch
            o == (q - 1) % pitch
            x == o \div 4
        IN  IF y < frameHeight /\ x < frameWidth
            THEN SrcByte(frameData,
                         SrcRow(y) * frameWidth * 4 + x * 4
                         + (IF o % 4 = 3 THEN 3 ELSE 2 - (o % 4)), oob)
            ELSE px[q]]

convertAndCopyFrame(frameData, px, pitch, oob) ==
    CASE bitsPerPixel = 8  -> convert8BitToRGB24(frameData, px, pitch, oob)
      [] bitsPerPixel = 16 -> convert16BitToRGB565(frameData, px, pitch, oob)
      [] bitsPerPixel = 24 -> convert24BitBGRToRGB(frameData, px, pitch, oob)
      [] bitsPerPixel = 32 -> convert32BitBGRAToRGBA(frameData, px, pitch, oob)
      [] OTHER             -> px

\* the converters read frameWidth * frameHeight pixels of frameData
ReadsOutOfBounds(frameData) ==
    /\ bitsPerPixel \in SupportedBits
    /\ Len(frameData) < frameWidth * frameHeight * (bitsPerPixel \div 8)

\* what an out-of-bounds read of frameData may return
OutOfBoundsBytes == {0, 255}

(***************************************************************************)
(* renderFrame(frameIndex) with the stream in state s and the texture       *)
(* holding px: the outcomes it may have.  shown: the frame was converted    *)
(* and presented; crashed: an out-of-bounds read ended the process.         *)
(***************************************************************************)
FrameData(s, frameIndex) ==
    ReadInto(SeekTo(s, frameOffsets[frameIndex + 1]),
             frameSizes[frameIndex + 1], Zeros(frameSizes[frameIndex + 1]))

renderFrame(s, px, frameIndex) ==
    IF frameIndex >= Len(frameOffsets)
    THEN {[file |-> s, pixels |-> px, shown |-> FALSE, crashed |-> FALSE]}
    ELSE LET s1 == SeekTo(s, frameOffsets[frameIndex + 1])
             frameData == FrameData(s, frameIndex)
             s2 == Read(s1, frameSizes[frameIndex + 1])
         IN  {[file |-> s2,
               pixels |-> convertAndCopyFrame(frameData, px, Pitch, oob),
               shown |-> TRUE, crashed |-> FALSE] : oob \in OutOfBoundsBytes}
             \cup (IF ReadsOutOfBounds(frameData)
                   THEN {[file |-> s2, pixels |-> px, shown |-> FALSE,
                          crashed |-> TRUE]}
                   ELSE {})

\* a renderFrame that drops the last entry of the frame index
RenderEffectsShrinkingIndex(o) ==
    /\ file' = o.file
    /\ pixels' = o.pixels
    /\ frameOffsets' = SubSeq(frameOffsets, 1, Len(frameOffsets) - 1)
    /\ frameSizes' = SubSeq(frameSizes, 1, Len(frameSizes) - 1)
    /\ UNCHANGED <<info, palette>>

\* what a renderFrame call with outcome o writes: the stream's state and
\* the texture's buffer, and no other member
RenderEffects(o) ==
    /\ file' = o.file
    /\ pixels' = o.pixels
    /\ UNCHANGED <<info, index, palette>>

(***************************************************************************)
(* play().                                                                  *)
(***************************************************************************)
\* a play() without its guard
PlayNeverRefuses == FALSE

\* if (!isValid) return;
PlayRefuses == ~isValid

PlayEnter ==
    /\ pc \in {"ready", "loadFailed"}
    /\ IF PlayRefuses
       THEN pc' = "done"
       ELSE \* frameTime = 1000 / fps: a division by zero traps, or yields
            \* some value, when fps is 0
            IF fps = 0 THEN pc' \in {"crashed", "playing"}
                       ELSE pc' = "playing"
    /\ quit' = FALSE
    /\ hist' = [hist EXCEPT !.played = TRUE]
    /\ UNCHANGED <<input, disk, file, hdrs, info, index, palette,
                   currentFrame, isValid, texture, pixels, loc>>

\* one iteration of while (!quit && currentFrame < totalFrames), or the
\* loop's exit
PlayLoop ==
    /\ pc = "playing"
    /\ IF quit \/ ~(currentFrame < totalFrames)
       THEN /\ pc' = (IF currentFrame >= totalFrames /\ ~quit THEN "waiting"
                                                             ELSE "done")
            /\ UNCHANGED <<file, pixels, info, index, palette, currentFrame,
                           quit, hist>>
       ELSE \E quitEvent \in BOOLEAN, due \in BOOLEAN :
              /\ quit' = quitEvent
              /\ IF due
                 THEN \E o \in renderFrame(file, pixels, currentFrame) :
                        /\ RenderEffects(o)
                        /\ hist' = [hist EXCEPT !.presented =
                              IF o.shown THEN Append(@, currentFrame) ELSE @]
                        /\ IF o.crashed
                           THEN pc' = "crashed" /\ UNCHANGED currentFrame
                           ELSE pc' = pc /\ currentFrame' = currentFrame + 1
                 ELSE UNCHANGED <<file, pixels, info, index, palette,
                                  currentFrame, pc, hist>>
    /\ UNCHANGED <<input, disk, hdrs, isValid, texture, loc>>

\* while (!quit) after "Playback completed!": a quit event ends it
PlayWait ==
    /\ pc = "waiting"
    /\ quit' = TRUE
    /\ pc' = "done"
    /\ UNCHANGED <<input, disk, file, hdrs, info, index, palette,
                   currentFrame, isValid, texture, pixels, loc, hist>>

(***************************************************************************)
(* The program: main() loads the file, initialises SDL and plays.           *)
(***************************************************************************)
Load == LoadOpen \/ ParseTop \/ ParseHeaderList \/ ParseStreamList
        \/ IndexFrames \/ LoadFinish

Next == Load \/ InitSDL \/ PlayEnter \/ PlayLoop \/ PlayWait

Spec == Init /\ [][Next]_vars

\* main() under its scheduling: once initSDL succeeded main calls play(),
\* and play's loop keeps iterating (it sleeps 1 ms per iteration while the
\* steady clock advances, so the next frame's tick comes due)
SpecPlay == Spec /\ WF_vars(PlayEnter) /\ WF_vars(PlayLoop)

(***************************************************************************)
(* renderFrame as the random-access decode operation: after a successful    *)
(* load and initSDL, renderFrame is called for any index, in any order.     *)
(***************************************************************************)
Decode ==
    /\ pc = "ready"
    /\ Len(hist.calls) < MaxDecodes
    /\ \E frameIndex \in 0..MaxFrames :
         \E o \in renderFrame(file, pixels, frameIndex) :
           /\ RenderEffects(o)
           /\ pc' = (IF o.crashed THEN "crashed" ELSE pc)
           /\ hist' = [hist EXCEPT
                 !.presented = IF o.shown THEN Append(@, frameIndex) ELSE @,
                 !.calls = Append(@, [index |-> frameIndex, shown |-> o.shown,
                                      pixels |-> o.pixels])]
    /\ UNCHANGED <<input, disk, hdrs, currentFrame, isValid, texture, loc,
                   quit>>

NextDecode == Load \/ InitSDL \/ Decode

SpecDecode == Init /\ [][NextDecode]_vars

(***************************************************************************)
(* A second run of the program, on the file that stores the same picture   *)
(* the other way up: the rows in reverse order under the opposite sign of  *)
(* the declared height.  The first run decodes one frame; a new AVIPlayer  *)
(* is constructed for the second, and what the first run decoded is        *)
(* remembered in hist.firstRun.                                            *)
(***************************************************************************)
Mirror(d) ==
    [d EXCEPT !.layout = IF d.layout = "plain" THEN "rowsReversed" ELSE "plain",
              !.topDown = ~d.topDown]

Reopen ==
    /\ pc = "ready"
    /\ input.layout \in {"plain", "rowsReversed"} /\ WellFormed(input)
    /\ hist.firstRun = <<>> /\ Len(hist.calls) = 1
    /\ input' = Mirror(input)
    /\ disk' = FileBytes(input')
    /\ file' = [pos |-> 0, fail |-> FALSE]
    /\ \E u \in StaleFill :
          /\ mainHeader' = UninitMainHeader(u)
          /\ streamHeader' = UninitStreamHeader(u)
          /\ bitmapHeader' = UninitBitmapHeader(u)
    /\ frameWidth' = 0 /\ frameHeight' = 0 /\ fps' = 0 /\ totalFrames' = 0
    /\ currentFrame' = 0 /\ bitsPerPixel' = 0 /\ bytesPerPixel' = 0
    /\ isTopDown' = FALSE
    /\ frameOffsets' = <<>> /\ frameSizes' = <<>> /\ palette' = <<>>
    /\ sdlPixelFormat' = "UNKNOWN" /\ isValid' = FALSE
    /\ texture' = FALSE /\ pixels' = <<>>
    /\ pc' = "start"
    /\ foundMainHeader' = FALSE
    /\ hl' = NoFrame /\ sl' = NoFrame
    /\ mv' = [movieStart |-> 0, movieSize |-> 0]
    /\ quit' = FALSE
    /\ hist' = [InitHist EXCEPT !.firstRun = hist.calls]

NextRoundTrip == Load \/ InitSDL \/ Decode \/ Reopen

SpecRoundTrip == Init /\ [][NextRoundTrip]_vars


(***************************************************************************)
(* Properties.                                                              *)
(***************************************************************************)
Last(seq) == seq[Len(seq)]

\* the load ran format resolution and it refused the format
FormatFailed ==
    /\ hist.loadResult = "failed"
    /\ hist.stages # <<>>
    /\ Last(hist.stages) = "format"

\* the number of "00db" / "00dc" chunks in the chunk sequence b, walked from
\* offset p by the layout's rule (8 bytes of header, the payload, a pad byte
\* after an odd payload)
RECURSIVE CountFrameChunks(_, _)
CountFrameChunks(b, p) ==
    IF p + SizeofChunkHeader > Len(b) THEN 0
    ELSE (IF IsFrameTag(TagAt(b, p)) THEN 1 ELSE 0)
         + CountFrameChunks(b, ChunkEnd(p, U32At(b, p + 4)))

PhysicalFrameChunks(d) == CountFrameChunks(MoviChunks(d), 0)

\* C1: for every well-formed uncompressed file that loads, totalFrames (the
\* bound of the playback loop) equals the number of entries of the frame
\* index, and that number equals the number of 00db/00dc chunks present in
\* the movi list, whatever the main header declares.
C1_FrameCountIsChunkCount ==
    (isValid /\ WellFormed(input)) =>
        /\ totalFrames = Len(frameOffsets)
        /\ Len(frameOffsets) = PhysicalFrameChunks(input)

\* C2: a chunk of the movi list whose declared length runs past the end of
\* the file makes loadAVI fail: a load that succeeded has no index entry
\* whose byte range lies beyond the end of the file.
C2_NoEntryBeyondEndOfFile ==
    hist.loadResult = "ok" =>
        \A i \in DOMAIN frameOffsets :
            frameOffsets[i] + frameSizes[i] <= Len(disk)

\* C3: when the video stream's format chunk reports compression # 0, loadAVI
\* fails, the player is not marked valid, and no frame of it is decoded or
\* played: playback is never entered and nothing is presented.
C3_CompressedIsRefused ==
    (/\ hist.loadResult # "none"
     /\ hist.videoFormats > 0
     /\ BmpCompression(bitmapHeader) # 0) =>
        /\ hist.loadResult = "failed"
        /\ ~isValid
        /\ pc \in {"loadFailed", "done"}
        /\ hist.presented = <<>>
        /\ currentFrame = 0

\* C3 happens: a file with a compressed video format was given to loadAVI,
\* which indexed its frames and then refused it, and play() was called
C3_CompressedWasPlayed ==
    /\ hist.videoFormats > 0
    /\ BmpCompression(bitmapHeader) # 0
    /\ FormatFailed
    /\ frameOffsets # <<>>
    /\ hist.played
    /\ pc = "done"

DecodeFails(k) ==
    \/ k >= Len(frameOffsets)
    \/ frameOffsets[k + 1] + frameSizes[k + 1] > Len(disk)

\* frame k is in the index, its bytes are all in the file, and they are as
\* many as the converters read
FullyAvailable(k) ==
    /\ ~DecodeFails(k)
    /\ ~ReadsOutOfBounds(FrameData(hist.loadedFile, k))

\* the buffers a decode of frame k gives on the player as loadAVI and
\* initSDL left it
FreshDecode(k) ==
    {o.pixels : o \in {r \in renderFrame(hist.loadedFile,
                                         Zeros(frameHeight * Pitch), k) :
                          r.shown}}

\* C5: after a successful load, a failed decode call (index >= frame count,
\* or the frame's byte range not fully in the file) does not affect a later
\* decode of a different, fully available frame: that decode gives the
\* buffer it gives when the failed call never happened.
C5_FailedDecodeIsScoped ==
    \A a \in DOMAIN hist.calls : \A b \in DOMAIN hist.calls :
        (/\ a < b
         /\ DecodeFails(hist.calls[a].index)
         /\ hist.calls[b].index # hist.calls[a].index
         /\ FullyAvailable(hist.calls[b].index)) =>
            /\ hist.calls[b].shown
            /\ hist.calls[b].pixels \in FreshDecode(hist.calls[b].index)

\* C6: chunk skipping is length-exact in every parsing stage: after a chunk
\* that starts at p and declares length L the stream stands at p + 8 + L
\* rounded up to even, and a departure from that makes the load fail, so a
\* load that succeeded never left a chunk at another position.
C6_SkippingIsLengthExact ==
    hist.loadResult = "ok" => ~hist.misaligned

\* C7: with more than one 'vids' stream in the header list, the bitmap
\* header and the palette kept after the load are those of the first video
\* stream: the later stream's strf leaves format, dimensions, orientation
\* and palette as the first one set them.
C7_FirstVideoStreamKept ==
    (hist.loadResult = "ok" /\ hist.videoFormats > 1) =>
        /\ BmpBitCount(bitmapHeader) = BmpBitCount(hist.firstFormat)
        /\ bitsPerPixel = BmpBitCount(hist.firstFormat)
        /\ BmpWidth(bitmapHeader) = BmpWidth(hist.firstFormat)
        /\ isTopDown = (BmpHeight(hist.firstFormat) < 0)
        /\ palette = hist.firstPalette

\* C8: when loadAVI fails, at whatever stage, isValid stays false and a
\* play() called afterwards decodes and renders no frame.
C8_FailedLoadNeverPlays ==
    hist.loadResult = "failed" =>
        /\ ~isValid
        /\ pc \in {"loadFailed", "done"}
        /\ hist.presented = <<>>
        /\ currentFrame = 0
        /\ pixels = <<>>

\* C8 happens: play() was called on a player whose load failed after the
\* frames were indexed and the frame count was set, and it returned
C8_PlayedAfterFailedLoad ==
    /\ hist.loadResult = "failed"
    /\ hist.played
    /\ pc = "done"
    /\ frameOffsets # <<>>
    /\ totalFrames > 0

\* C9: decoding is idempotent and order-independent: two decodes of the
\* same frame index (a frame of the index whose bytes are all in the file),
\* with any decode calls in between, give bit-identical buffers.
C9_DecodeIsIdempotent ==
    \A a \in DOMAIN hist.calls : \A b \in DOMAIN hist.calls :
        (/\ a < b
         /\ hist.calls[a].index = hist.calls[b].index
         /\ FullyAvailable(hist.calls[a].index)) =>
            /\ hist.calls[a].shown = hist.calls[b].shown
            /\ hist.calls[a].pixels = hist.calls[b].pixels

\* C10: once the load has succeeded, the frame dimensions, fps, the frame
\* count, the pixel format, the orientation flag, the palette and the frame
\* index are never modified again by a render call or by the playback loop.
C10_LoadedStateIsImmutable ==
    [][isValid => UNCHANGED <<frameWidth, frameHeight, fps, totalFrames,
                              bitsPerPixel, bytesPerPixel, isTopDown,
                              sdlPixelFormat, palette, frameOffsets,
                              frameSizes>>]_vars

\* C10 happens: the playback loop rendered every frame of a loaded file and
\* play() returned
C10_PlayedToTheEnd ==
    /\ isValid
    /\ pc = "done"
    /\ currentFrame = totalFrames
    /\ Len(hist.presented) = Len(frameOffsets)
    /\ Len(frameOffsets) >= 2

\* C11: orientation round trip: a file that declares height -H and a file
\* that declares height +H and stores the same rows in reverse order decode
\* to the same buffer, pixel for pixel, for every frame.
C11_OrientationRoundTrip ==
    \A a \in DOMAIN hist.firstRun : \A b \in DOMAIN hist.calls :
        (/\ hist.firstRun[a].index = hist.calls[b].index
         /\ hist.calls[b].index < Len(frameOffsets)) =>
            /\ hist.firstRun[a].shown /\ hist.calls[b].shown
            /\ hist.firstRun[a].pixels = hist.calls[b].pixels

\* C11 happens: frame 0 was decoded from a top-down file and then from the
\* bottom-up file with the rows reversed, and its two rows differ
C11_BothOrientationsDecoded ==
    /\ input.layout = "rowsReversed" /\ ~input.topDown /\ ~isTopDown
    /\ \E a \in DOMAIN hist.firstRun : \E b \in DOMAIN hist.calls :
          /\ hist.firstRun[a].index = 0 /\ hist.calls[b].index = 0
          /\ hist.firstRun[a].shown /\ hist.calls[b].shown
          /\ SubSeq(hist.calls[b].pixels, 1, Pitch)
                # SubSeq(hist.calls[b].pixels, Pitch + 1, 2 * Pitch)

\* loadAVI reached format resolution
FormatRan == hist.stages # <<>> /\ Last(hist.stages) = "format"

\* C12: pixel format resolution fails when the compression tag is not zero,
\* whatever the bit depth, and when the bit count is not 8, 16, 24 or 32;
\* otherwise it succeeds with 1, 2, 3, 4 bytes per pixel respectively.
C12_FormatResolution ==
    /\ FormatRan =>
         /\ hist.loadResult = "ok" <=>
               (/\ BmpCompression(bitmapHeader) = 0
                /\ BmpBitCount(bitmapHeader) \in {8, 16, 24, 32})
         /\ hist.loadResult = "ok" =>
               /\ bitsPerPixel = BmpBitCount(bitmapHeader)
               /\ bytesPerPixel * 8 = bitsPerPixel
    /\ \A bits \in 0..33 : \A comp \in 0..2 :
         LET pf == determinePixelFormat(BitmapBytes(FrameW, FrameH, bits, comp),
                                        sdlPixelFormat)
         IN  /\ pf.ok <=> (comp = 0 /\ bits \in {8, 16, 24, 32})
             /\ pf.ok => pf.bytesPerPixel * 8 = bits

\* C12 happens: loadAVI resolved the format of an uncompressed file whose
\* bit count is none of the supported ones, and refused it
C12_UnsupportedDepthRefused ==
    /\ FormatRan
    /\ hist.videoFormats > 0
    /\ BmpCompression(bitmapHeader) = 0
    /\ BmpBitCount(bitmapHeader) \notin {0, 8, 16, 24, 32}
    /\ hist.loadResult = "failed"

\* byte i (0-based) of frame k's data, as the file stores it
SourceByte(k, i) == disk[frameOffsets[k + 1] + i + 1]

\* the stream was good when decode call c began: the load left it good and
\* no earlier call read short
StreamGood(c) ==
    /\ ~hist.loadedFile.fail
    /\ \A a \in 1..(c - 1) :
          \/ hist.calls[a].index >= Len(frameOffsets)
          \/ ~DecodeFails(hist.calls[a].index)

\* decode call c converted and presented a frame whose bytes it had in full
Decoded(c) ==
    /\ hist.calls[c].shown
    /\ FullyAvailable(hist.calls[c].index)
    /\ StreamGood(c)

\* byte j of the pixel at column x of row y of the buffer call c produced
DestByte(c, y, x, j) ==
    hist.calls[c].pixels[y * Pitch
                         + x * TextureBytesPerPixel(sdlPixelFormat) + j + 1]

\* C13: direct-colour conversion is exact for every pixel: 24 bit, the
\* destination bytes 0,1,2 are the source bytes 2,1,0; 32 bit, the same and
\* byte 3 (alpha) is copied; 16 bit, each 16-bit value is copied unchanged.
C13_DirectColourExact ==
    \A c \in DOMAIN hist.calls :
        (Decoded(c) /\ bitsPerPixel \in {16, 24, 32}) =>
            \A y \in 0..(frameHeight - 1) : \A x \in 0..(frameWidth - 1) :
                LET k   == hist.calls[c].index
                    n   == bitsPerPixel \div 8
                    src == (SrcRow(y) * frameWidth + x) * n
                IN  /\ bitsPerPixel = 16 =>
                         /\ DestByte(c, y, x, 0) = SourceByte(k, src)
                         /\ DestByte(c, y, x, 1) = SourceByte(k, src + 1)
                    /\ bitsPerPixel \in {24, 32} =>
                         /\ DestByte(c, y, x, 0) = SourceByte(k, src + 2)
                         /\ DestByte(c, y, x, 1) = SourceByte(k, src + 1)
                         /\ DestByte(c, y, x, 2) = SourceByte(k, src)
                    /\ bitsPerPixel = 32 =>
                         DestByte(c, y, x, 3) = SourceByte(k, src + 3)

\* C13 happens: a 24-bit frame whose first pixel has three different bytes
\* was decoded
C13_DirectColourDecoded ==
    \E c \in DOMAIN hist.calls :
        /\ Decoded(c) /\ bitsPerPixel = 24
        /\ DestByte(c, 0, 0, 0) # DestByte(c, 0, 0, 2)
        /\ DestByte(c, 0, 0, 0) # 0

\* C14: Indexed8 decoding: for every source byte i the destination pixel is
\* (red, green, blue) of palette[i] when i is less than the palette's
\* length and black (0,0,0) otherwise; an index beyond the palette raises no
\* error and leaves the decoding of the other pixels as it is.
C14_Indexed8Exact ==
    \A c \in DOMAIN hist.calls :
        (/\ bitsPerPixel = 8
         /\ hist.calls[c].index < Len(frameOffsets)
         /\ FullyAvailable(hist.calls[c].index)
         /\ StreamGood(c)) =>
            /\ hist.calls[c].shown
            /\ \A y \in 0..(frameHeight - 1) : \A x \in 0..(frameWidth - 1) :
                  LET i == SourceByte(hist.calls[c].index,
                                      SrcRow(y) * frameWidth + x)
                  IN  IF i < Len(palette)
                      THEN /\ DestByte(c, y, x, 0) = palette[i + 1].red
                           /\ DestByte(c, y, x, 1) = palette[i + 1].green
                           /\ DestByte(c, y, x, 2) = palette[i + 1].blue
                      ELSE /\ DestByte(c, y, x, 0) = 0
                           /\ DestByte(c, y, x, 1) = 0
                           /\ DestByte(c, y, x, 2) = 0

\* C14 happens: an 8-bit frame was decoded that holds an index inside the
\* palette (shown in a colour that is not black) next to one beyond it
C14_IndexBeyondPaletteDecoded ==
    \E c \in DOMAIN hist.calls :
        /\ Decoded(c) /\ bitsPerPixel = 8 /\ palette # <<>>
        /\ \E y \in 0..(frameHeight - 1) : \E x1, x2 \in 0..(frameWidth - 1) :
              /\ SourceByte(hist.calls[c].index, SrcRow(y) * frameWidth + x1)
                    >= Len(palette)
              /\ SourceByte(hist.calls[c].index, SrcRow(y) * frameWidth + x2)
                    < Len(palette)
              /\ DestByte(c, y, x2, 0) # 0

\* C15: the load fails whenever no format chunk of a video stream ('strf'
\* after a 'vids' 'strh') was found before the movi list, also when an hdrl
\* list is present without one: a load never succeeds with a bitmap header
\* that no format chunk populated.
C15_NoLoadWithoutVideoFormat ==
    hist.loadResult = "ok" => hist.videoFormats > 0

\* C16: play() blocks only until playback completes or the user quits:
\* once every frame up to the frame count has been presented it returns
\* without a further user event, so it is never found, all frames played
\* and no quit event seen, waiting for one.
C16_PlayReturnsWhenComplete ==
    ~(/\ pc = "waiting"
      /\ currentFrame >= totalFrames
      /\ ~quit)

\* the entries the chunks of b between p and end ask for, in file order:
\* for every chunk tagged "00db" or "00dc" the position after its 8-byte
\* header and its declared length; a chunk is followed by the next one at
\* its padded end
RECURSIVE FrameEntries(_, _, _)
FrameEntries(b, p, end) ==
    IF p >= end \/ p + SizeofChunkHeader > Len(b) THEN <<>>
    ELSE (IF TagAt(b, p) = Tag00db \/ TagAt(b, p) = Tag00dc
          THEN <<[offset |-> p + SizeofChunkHeader, size |-> U32At(b, p + 4)]>>
          ELSE <<>>)
         \o FrameEntries(b, ChunkEnd(p, U32At(b, p + 4)), end)

\* indexFrames was called with the stream in a good state, and returned
IndexDone ==
    /\ \E i \in DOMAIN hist.stages : hist.stages[i] = "index"
    /\ pc # "movi"
    /\ mv.movieStart >= 0

\* every chunk header of the movi list is in the file
RECURSIVE HeadersComplete(_, _, _)
HeadersComplete(b, p, end) ==
    IF p >= end THEN TRUE
    ELSE IF p + SizeofChunkHeader > Len(b) THEN FALSE
    ELSE HeadersComplete(b, ChunkEnd(p, U32At(b, p + 4)), end)

\* C17: frame indexing records exactly one entry per chunk of the movi list
\* tagged "00db" or "00dc" and none for any other chunk (audio, nested
\* lists, unknown tags); an entry is (position after the 8-byte chunk
\* header, declared length); no payload byte is read (a payload cut short by
\* the end of the file does not fail the stream); offsets and sizes have the
\* same length, and the offsets increase strictly.
C17_IndexRecordsFrameChunks ==
    /\ Len(frameOffsets) = Len(frameSizes)
    /\ \A i \in DOMAIN frameOffsets : \A j \in DOMAIN frameOffsets :
          i < j => frameOffsets[i] < frameOffsets[j]
    /\ IndexDone =>
         LET want == FrameEntries(disk, mv.movieStart,
                                  mv.movieStart + mv.movieSize)
         IN  /\ frameOffsets = [i \in DOMAIN want |-> want[i].offset]
             /\ frameSizes = [i \in DOMAIN want |-> want[i].size]
             /\ (pc = "parsed"
                 /\ HeadersComplete(disk, mv.movieStart,
                                    mv.movieStart + mv.movieSize)) => ~file.fail

\* C17 happens: a movi list with a nested list that holds a frame chunk was
\* indexed, and so was one whose last frame's payload the file cuts short
C17_MixedMoviIndexed ==
    /\ IndexDone /\ pc = "parsed"
    /\ \/ input.layout = "recList" /\ Len(frameOffsets) = MaxFrames
       \/ /\ input.cut > 0 /\ frameOffsets # <<>>
          /\ Last(frameOffsets) + Last(frameSizes) > Len(disk)

\* byte j of the output pixel that the pixel at column x of source row r of
\* frame k converts to, in the loaded pixel format
ConvertedByte(k, r, x, j) ==
    LET at == r * frameWidth + x
    IN  CASE bitsPerPixel = 8 ->
               LET i == SourceByte(k, at)
               IN  IF i >= Len(palette) THEN 0
                   ELSE (CASE j = 0 -> palette[i + 1].red
                           [] j = 1 -> palette[i + 1].green
                           [] j = 2 -> palette[i + 1].blue)
          [] bitsPerPixel = 16 -> SourceByte(k, at * 2 + j)
          [] bitsPerPixel = 24 -> SourceByte(k, at * 3 + 2 - j)
          [] bitsPerPixel = 32 ->
               SourceByte(k, at * 4 + (IF j = 3 THEN 3 ELSE 2 - j))

\* C18: in every pixel format (8, 16, 24, 32 bit) output row y (0 = top) is
\* filled from source row y when the top-down flag is set and from source
\* row height - 1 - y otherwise, for all 0 <= y < height.
C18_RowMapping ==
    \A c \in DOMAIN hist.calls :
        (Decoded(c) /\ bitsPerPixel \in {8, 16, 24, 32}) =>
            \A y \in 0..(frameHeight - 1) : \A x \in 0..(frameWidth - 1) :
                \A j \in 0..(TextureBytesPerPixel(sdlPixelFormat) - 1) :
                    DestByte(c, y, x, j) =
                        ConvertedByte(hist.calls[c].index,
                                      IF isTopDown THEN y
                                                   ELSE frameHeight - 1 - y,
                                      x, j)

\* C18 happens: a frame of a top-down 16-bit file whose first and last rows
\* differ was decoded
C18_TopDownFrameDecoded ==
    \E c \in DOMAIN hist.calls :
        /\ Decoded(c) /\ isTopDown /\ bitsPerPixel = 16 /\ frameHeight >= 2
        /\ \E x \in 0..(frameWidth - 1) :
              DestByte(c, 0, x, 0) # DestByte(c, frameHeight - 1, x, 0)

\* C19: when the video format chunk has bitCount 8 and a payload longer
\* than the 40-byte bitmap header, the palette has exactly
\* floor((payload length - 40) / 4) entries, the quads (blue, green, red,
\* reserved) in order; 1..3 partial trailing bytes are consumed without
\* error and are not stored in or beyond the palette; for any other bit
\* count no palette is populated.
C19_PaletteExact ==
    (/\ input.layout \in {"plain", "palPartial"}
     /\ input.cut = 0 /\ input.keep = 0
     /\ hist.videoFormats = 1) =>
        LET rest == Len(VideoFormat(input)) - SizeofBitmapInfoHeader
        IN  /\ hist.paletteOverrun = 0
            /\ IF input.bits = 8
               THEN /\ Len(palette) = rest \div SizeofRGBQuad
                    /\ \A i \in DOMAIN palette :
                          palette[i] =
                            QuadAt(VideoFormat(input),
                                   SizeofBitmapInfoHeader
                                   + SizeofRGBQuad * (i - 1))
               ELSE palette = <<>>

\* C20: every source byte a converter reads while decoding frame i lies
\* inside that frame's data: for every indexed frame that is rendered,
\* frameWidth * frameHeight * bytesPerPixel <= frameSizes[i], so that no
\* decode reads past the end of the frame buffer.
C20_ConvertersStayInFrame ==
    \A c \in DOMAIN hist.calls :
        hist.calls[c].index < Len(frameOffsets) =>
            /\ frameWidth * frameHeight * bytesPerPixel
                  <= frameSizes[hist.calls[c].index + 1]
            /\ ~ReadsOutOfBounds(FrameData(hist.loadedFile,
                                           hist.calls[c].index))

\* C21: after any successful load the derived fps is at least 1, whatever
\* the header's microSecPerFrame (values above 1,000,000 included), so that
\* the frame interval 1000 / fps at the start of play() is a defined
\* division.
C21_FpsAtLeastOne ==
    hist.loadResult = "ok" => fps >= 1

\* the bytes consumed from the stream s since the start of the payload of
\* the list the frame f (of parseHeaderList or parseStreamList) was called
\* for: the payload starts after the LIST chunk's header and its type tag
ConsumedInList(s, f) == s.pos - (f.listStart + SizeofChunkHeader + 4)

\* the loop of the frame f stands at its top with a counter that tells the
\* bytes consumed, and when the counter ends the loop the stream stands at
\* the list's end
CounterExact(s, f) ==
    ~s.fail =>
        /\ f.bytesRead = ConsumedInList(s, f)
        /\ ~(f.bytesRead < f.size) =>
               s.pos = f.listStart + SizeofChunkHeader + f.listSize

\* C22: in parseHeaderList and parseStreamList the running bytesRead
\* counter equals, at the top of every loop iteration, the number of bytes
\* consumed from the source since the start of the list payload (also after
\* a nested LIST chunk and after an avih / strh chunk whose declared size
\* differs from the struct's), so the loop stops exactly at the list's end.
C22_BytesReadIsConsumed ==
    /\ pc = "hdrl" => CounterExact(file, hl)
    /\ pc = "strl" => CounterExact(file, sl)

\* the current-frame counter is 0 until play() runs and never exceeds the
\* frame count; the frames presented so far are 0, 1, 2, ... in order, each
\* once: those below the counter that have an index entry
PlayCounterBounded ==
    /\ ~hist.played => currentFrame = 0
    /\ currentFrame <= totalFrames
    /\ LET n == IF currentFrame < Len(frameOffsets) THEN currentFrame
                                                    ELSE Len(frameOffsets)
       IN  hist.presented = [i \in 1..n |-> i - 1]

\* a step changes the counter only inside play's loop, and by exactly 1
PlayCounterSteps ==
    currentFrame' # currentFrame =>
        pc = "playing" /\ currentFrame' = currentFrame + 1

\* a tick that requests a frame which has an index entry, and whose bytes
\* the file holds, leaves in the texture what a decode of that frame from
\* a good stream gives
PlayTickDecodes ==
    (/\ pc = "playing" /\ currentFrame' = currentFrame + 1
     /\ currentFrame < Len(frameOffsets)
     /\ ~DecodeFails(currentFrame)) =>
        pixels' \in {r.pixels :
                       r \in {q \in renderFrame([pos |-> 0, fail |-> FALSE],
                                                pixels, currentFrame) :
                                q.shown}}

\* C23: during play() the current-frame counter starts at 0, only ever
\* increases by exactly 1 per rendered tick and never exceeds the frame
\* count, so frames are requested in order 0, 1, 2, ... each at most once;
\* if no quit event arrives the counter eventually reaches the frame count;
\* and every requested index that has an index entry is decoded and
\* presented (no requested frame is silently skipped).
C23_PlayCounter ==
    /\ []PlayCounterBounded
    /\ [][PlayCounterSteps]_vars
    /\ [][PlayTickDecodes]_vars
    /\ (pc = "ready") ~> (quit \/ currentFrame >= totalFrames)

=============================================================================
